---- MODULE Spec2Model ----
(***************************************************************************)
(* Model of check.py: a command-line tool that runs a child program,       *)
(* feeds it a decoded --input on stdin, captures its output and judges     *)
(* pass/fail by a regex search on stdout (optionally requiring exit 0).    *)
(*                                                                         *)
(* Text is a sequence: child output and regex patterns are sequences of    *)
(* one-character strings, the --input value is a sequence of code points.  *)
(* subprocess.run is modelled as CPython's POSIX implementation behaves:   *)
(* the launch, the child's own steps, the return of communicate() and the  *)
(* expiry of the timeout are separate steps of the state machine.          *)
(***************************************************************************)
EXTENDS Integers, Sequences, FiniteSets, TLC

VARIABLES
    argv,           \* the raw command line handed to the tool
    pc,             \* position of main(): start, parsed, decoded, waiting, ran, done
    args,           \* the parsed configuration (NoArgs before parse_args returns)
    stdin_text,     \* the decoded --input (line 109)
    child,          \* the child process: none, running, exited, killed
    childrc,        \* the child's own exit status (-1 while it has none)
    delivered,      \* what the child received on stdin
    captured,       \* bytes the child has written to its stdout pipe
    rr,             \* the RunResult (NoRR while run_java has not returned)
    printed,        \* every print of the tool, in order, tagged with its stream
    raised,         \* name of the uncaught exception / SystemExit, "" if none
    exitcode,       \* exit status of the tool's process (-1 while running)
    spawns,         \* number of launches attempted (calls of subprocess.run)
    results,        \* number of RunResult objects constructed
    matcher_calls   \* number of calls of stdout_matches

vars == <<argv, pc, args, stdin_text, child, childrc, delivered, captured, rr,
          printed, raised, exitcode, spawns, results, matcher_calls>>

----------------------------------------------------------------------------
(* Bounds of the model *)

\* longest --input value, in characters
MaxInputLen == 2
\* the child's own exit statuses are 0..MaxExit
MaxExit == 2

----------------------------------------------------------------------------
(* Helpers on sequences *)

Range(s) == {s[i] : i \in 1..Len(s)}

RECURSIVE SeqsUpTo(_, _)
SeqsUpTo(S, n) ==
    IF n = 0 THEN {<<>>}
    ELSE LET shorter == SeqsUpTo(S, n - 1)
         IN  shorter \cup {Append(s, c) : s \in {t \in shorter : Len(t) = n - 1}, c \in S}

----------------------------------------------------------------------------
(* The --input value and its decoding (line 109)                           *)

BACKSLASH == 92

\* characters of the modelled --input values: \ n t e-acute
InputAlphabet == {92, 110, 116, 233}

\* marks a position where the codec raises UnicodeDecodeError
DecodeError == -1

\* str.encode("utf-8") of one code point
Utf8Char(cp) ==
    IF cp < 128 THEN <<cp>>
    ELSE IF cp < 2048 THEN <<192 + (cp \div 64), 128 + (cp % 64)>>
    ELSE <<224 + (cp \div 4096), 128 + ((cp \div 64) % 64), 128 + (cp % 64)>>

RECURSIVE EncodeUtf8(_)
EncodeUtf8(s) ==
    IF s = <<>> THEN <<>> ELSE Utf8Char(Head(s)) \o EncodeUtf8(Tail(s))

\* the single-character escapes of the unicode_escape codec: the character
\* after the backslash, and the code point the pair denotes
SimpleEscapes == {92, 39, 34, 97, 98, 102, 110, 114, 116, 118}

EscapeValue(c) ==
    CASE c = 92  -> 92
      [] c = 39  -> 39
      [] c = 34  -> 34
      [] c = 97  -> 7
      [] c = 98  -> 8
      [] c = 102 -> 12
      [] c = 110 -> 10
      [] c = 114 -> 13
      [] c = 116 -> 9
      [] c = 118 -> 11

\* bytes.decode("unicode_escape"): every byte is one Latin-1 character, a
\* backslash starts an escape, an unknown escape is kept as it is, and a
\* backslash at the end of the string is an error.  (Octal, \x, \u, \U and
\* \N escapes need characters that are not in InputAlphabet.)
RECURSIVE DecodeUnicodeEscape(_)
DecodeUnicodeEscape(b) ==
    IF b = <<>> THEN <<>>
    ELSE IF Head(b) # BACKSLASH THEN <<Head(b)>> \o DecodeUnicodeEscape(Tail(b))
    ELSE IF Len(b) = 1 THEN <<DecodeError>>
    ELSE LET c == b[2]
             rest == DecodeUnicodeEscape(Tail(Tail(b)))
         IN  IF c \in SimpleEscapes THEN <<EscapeValue(c)>> \o rest
             ELSE IF c = 10 THEN rest
             ELSE <<BACKSLASH, c>> \o rest

\* args.input.encode("utf-8").decode("unicode_escape")
DecodeInput(s) == DecodeUnicodeEscape(EncodeUtf8(s))

DecodeRaises(s) == DecodeError \in Range(DecodeInput(s))

----------------------------------------------------------------------------
(* The matcher (lines 58-62, 111-115)                                      *)

\* the modelled patterns: tokens are literal characters, ".", "^", "$" and
\* "(" (an unterminated group, which re.compile rejects)
Patterns ==
    { <<>>, <<"O", "K">>, <<"o", "k">>, <<".">>, <<"^", "O", "K", "$">>, <<"(">> }

\* what the modelled child can write to its stdout in one write; "BAD" is a
\* byte that is not valid UTF-8
ChildOutputs == { <<"O", "K">>, <<"x", "o", "k">>, <<"\n">>, <<"BAD">> }

PatternValid(p) == "(" \notin Range(p)

Lower(c) == CASE c = "O" -> "o" [] c = "K" -> "k" [] OTHER -> c

\* lines 111-115
Flags(a) ==
    (IF a.dotall THEN {"DOTALL"} ELSE {}) \cup
    (IF a.ignorecase THEN {"IGNORECASE"} ELSE {})

AnchoredStart(p) == Len(p) > 0 /\ p[1] = "^"
AnchoredEnd(p) == Len(p) > 0 /\ p[Len(p)] = "$"

Atoms(p) ==
    LET first == IF AnchoredStart(p) THEN 2 ELSE 1
        last == IF AnchoredEnd(p) THEN Len(p) - 1 ELSE Len(p)
    IN  SubSeq(p, first, last)

AtomMatches(a, c, flags) ==
    IF a = "." THEN ("DOTALL" \in flags \/ c # "\n")
    ELSE IF "IGNORECASE" \in flags THEN Lower(a) = Lower(c)
    ELSE a = c

\* the pattern matches the text starting at position i
MatchAt(p, text, i, flags) ==
    LET atoms == Atoms(p)
        stop == i + Len(atoms) - 1
    IN  /\ stop <= Len(text)
        /\ \A j \in 1..Len(atoms) : AtomMatches(atoms[j], text[i + j - 1], flags)
        /\ AnchoredStart(p) => i = 1
        /\ AnchoredEnd(p) =>
              \/ stop = Len(text)
              \/ stop = Len(text) - 1 /\ text[Len(text)] = "\n"

\* re.search on a str: a match anywhere in the text
Search(p, text, flags) == \E i \in 1..(Len(text) + 1) : MatchAt(p, text, i, flags)

\* a variant that swallows an invalid pattern and a bytes subject as "no match"
stdout_matches_swallow(stdout, pattern, flags) ==
    IF ~PatternValid(pattern) \/ stdout.kind = "bytes" THEN "nomatch"
    ELSE IF Search(pattern, stdout.val, flags) THEN "match" ELSE "nomatch"

\* stdout_matches: re.search compiles the pattern first (re.error if it is
\* invalid), then refuses a str pattern on a bytes subject (TypeError)
stdout_matches(stdout, pattern, flags) ==
    IF ~PatternValid(pattern) THEN "re.error"
    ELSE IF stdout.kind = "bytes" THEN "TypeError"
    ELSE IF Search(pattern, stdout.val, flags) THEN "match"
    ELSE "nomatch"

----------------------------------------------------------------------------
(* RunResult (lines 9-14) and its three constructions in run_java          *)

Text(s) == [kind |-> "str", val |-> s]
Bytes(s) == [kind |-> "bytes", val |-> s]

NoRR == [ok |-> FALSE, returncode |-> -1, stdout |-> Text(<<>>), stderr |-> "none"]

Decodable(bytes) == "BAD" \notin Range(bytes)

\* lines 36-41
NormalResult(rc, bytes) ==
    [ok |-> (rc = 0), returncode |-> rc, stdout |-> Text(bytes), stderr |-> "child"]

\* a variant that reports the timeout as an ordinary failing exit status
TimeoutResult_plain(bytes) ==
    [ok |-> FALSE, returncode |-> 1,
     stdout |-> IF bytes = <<>> THEN Text(<<>>) ELSE Bytes(bytes),
     stderr |-> "child"]

\* lines 42-48: TimeoutExpired.stdout is None when nothing was captured and
\* the raw bytes otherwise, whatever text=True says
TimeoutResult(bytes) ==
    [ok |-> FALSE, returncode |-> 124,
     stdout |-> IF bytes = <<>> THEN Text(<<>>) ELSE Bytes(bytes),
     stderr |-> "Timed out after"]

\* lines 49-55
NotFoundResult ==
    [ok |-> FALSE, returncode |-> 127, stdout |-> Text(<<>>), stderr |-> "Command not found"]

----------------------------------------------------------------------------
(* Printing                                                                *)

PASS == <<"P", "A", "S", "S">>

\* str() of a value handed to print: text as it is, bytes as their repr
Str(v) == IF v.kind = "str" THEN v.val ELSE <<"b", "'">> \o v.val \o <<"'">>

Line(stream, tag, text, num) ==
    [stream |-> stream, tag |-> tag, text |-> text, num |-> num]

\* print(rr.stdout), line 119, when --verbose is set
Echo(a, r) == IF a.verbose THEN <<Line("stdout", "echo", Str(r.stdout), 0)>> ELSE <<>>

\* lines 122-127
ExitReport(r) ==
    << Line("stderr", "FAIL: Java program returned non-zero exit code.", <<>>, 0),
       Line("stderr", "Return code", <<>>, r.returncode),
       Line("stderr", "--- stderr ---", <<>>, 0),
       Line("stderr", r.stderr, <<>>, 0),
       Line("stderr", "--- stdout ---", <<>>, 0),
       Line("stderr", "stdout", Str(r.stdout), 0) >>

\* line 131
PassLine == <<Line("stdout", "PASS", PASS, 0)>>

\* lines 134-139
MismatchReport(a, r) ==
    << Line("stderr", "FAIL: stdout did not match regex.", <<>>, 0),
       Line("stderr", "Regex", a.regex, 0),
       Line("stderr", "--- stdout ---", <<>>, 0),
       Line("stderr", "stdout", Str(r.stdout), 0),
       Line("stderr", "--- stderr ---", <<>>, 0),
       Line("stderr", r.stderr, <<>>, 0) >>

\* the interpreter's report of an uncaught exception, and argparse's usage error
Traceback(exc) == <<Line("stderr", "Traceback", <<>>, 0), Line("stderr", exc, <<>>, 0)>>
UsageError == <<Line("stderr", "usage", <<>>, 0)>>

\* the two streams
IsOut(l) == l.stream = "stdout"
IsErr(l) == l.stream = "stderr"
out == SelectSeq(printed, IsOut)
err == SelectSeq(printed, IsErr)

----------------------------------------------------------------------------
(* The Reporter's decision (lines 121-140)                                 *)

\* a variant that takes only a real exit status of the child as a violation
ExitCodeViolation_real(a, r) ==
    a.require_zero_exit /\ r.returncode # 0 /\ r.returncode \notin {124, 127}

\* line 121
ExitCodeViolation(a, r) == a.require_zero_exit /\ r.returncode # 0

\* the branch main() takes: "exit2", or the outcome of the matcher
Verdict(a, r) ==
    IF ExitCodeViolation(a, r) THEN "exit2"
    ELSE stdout_matches(r.stdout, a.regex, Flags(a))

\* a variant that returns 2 for a mismatch whenever --require-zero-exit is set
ReturnCode_strict(a, v) ==
    CASE v = "exit2" -> 2
      [] v = "match" -> 0
      [] v = "nomatch" -> IF a.require_zero_exit THEN 2 ELSE 1

\* the value main() returns on the three branches (lines 128, 132, 140)
ReturnCode(a, v) ==
    CASE v = "exit2" -> 2
      [] v = "match" -> 0
      [] v = "nomatch" -> 1

\* lines 143-144 and the interpreter: the exit status of the process is
\* main()'s return value, 1 after an uncaught exception
ExitStatus(a, v) ==
    IF v \in {"exit2", "match", "nomatch"} THEN ReturnCode(a, v) ELSE 1

\* what main() prints from line 118 on
Prints(a, r, v) ==
    Echo(a, r) \o
    ( CASE v = "exit2" -> ExitReport(r)
        [] v = "match" -> PassLine
        [] v = "nomatch" -> MismatchReport(a, r)
        [] OTHER -> Traceback(v) )

----------------------------------------------------------------------------
(* The command line                                                        *)

Commands == {"launchable", "missing", "not_executable"}

Config(usage, cmd, input, regex, dotall, ignorecase, rze, verbose) ==
    [usage |-> usage, cmd |-> cmd, input |-> input, regex |-> regex,
     dotall |-> dotall, ignorecase |-> ignorecase,
     require_zero_exit |-> rze, verbose |-> verbose]

NoArgs == Config("none", "none", <<>>, <<>>, FALSE, FALSE, FALSE, FALSE)

\* command lines argparse rejects: a required flag is missing, --timeout is
\* not a number
BadArgvs ==
    { Config(u, "launchable", <<>>, <<>>, FALSE, FALSE, FALSE, FALSE)
        : u \in {"missing_required", "bad_timeout"} }

GoodArgvs(inputs) ==
    { Config("ok", c, i, p, d, ic, z, v)
        : c \in Commands, i \in inputs, p \in Patterns,
          d \in BOOLEAN, ic \in BOOLEAN, z \in BOOLEAN, v \in BOOLEAN }

Inputs == SeqsUpTo(InputAlphabet, MaxInputLen)

\* --input values of the liveness specification: decoding succeeds or raises
LiveInputs == { <<>>, <<92, 110>>, <<92>> }

----------------------------------------------------------------------------
(* The state machine                                                       *)

InitWith(argvs) ==
    /\ argv \in argvs
    /\ pc = "start"
    /\ args = NoArgs
    /\ stdin_text = <<>>
    /\ child = "none"
    /\ childrc = -1
    /\ delivered = <<>>
    /\ captured = <<>>
    /\ rr = NoRR
    /\ printed = <<>>
    /\ raised = ""
    /\ exitcode = -1
    /\ spawns = 0
    /\ results = 0
    /\ matcher_calls = 0

Init == InitWith(GoodArgvs(Inputs) \cup BadArgvs)

\* the tool's process ends with an uncaught exception (or argparse's exit)
Abort(exc, status, report) ==
    /\ raised' = exc
    /\ exitcode' = status
    /\ printed' = printed \o report
    /\ pc' = "done"

\* line 107, the command line is accepted
ParseArgs ==
    /\ pc = "start"
    /\ argv.usage = "ok"
    /\ args' = argv
    /\ pc' = "parsed"
    /\ UNCHANGED <<argv, stdin_text, child, childrc, delivered, captured, rr,
                   printed, raised, exitcode, spawns, results, matcher_calls>>

\* line 107, argparse reports a usage error and exits with status 2
ParseArgsFails ==
    /\ pc = "start"
    /\ argv.usage # "ok"
    /\ Abort("SystemExit", 2, UsageError)
    /\ UNCHANGED <<argv, args, stdin_text, child, childrc, delivered, captured,
                   rr, spawns, results, matcher_calls>>

\* lines 109-115, the --input value decodes
DecodeStdin ==
    /\ pc = "parsed"
    /\ ~DecodeRaises(args.input)
    /\ stdin_text' = DecodeInput(args.input)
    /\ pc' = "decoded"
    /\ UNCHANGED <<argv, args, child, childrc, delivered, captured, rr,
                   printed, raised, exitcode, spawns, results, matcher_calls>>

\* line 109, the codec raises UnicodeDecodeError, which nothing catches
DecodeStdinFails ==
    /\ pc = "parsed"
    /\ DecodeRaises(args.input)
    /\ Abort("UnicodeDecodeError", 1, Traceback("UnicodeDecodeError"))
    /\ UNCHANGED <<argv, args, stdin_text, child, childrc, delivered, captured,
                   rr, spawns, results, matcher_calls>>

\* lines 117, 27: the child is launched and the input is written to its stdin
LaunchChild ==
    /\ pc = "decoded"
    /\ args.cmd = "launchable"
    /\ spawns' = spawns + 1
    /\ child' = "running"
    /\ delivered' = stdin_text
    /\ pc' = "waiting"
    /\ UNCHANGED <<argv, args, stdin_text, childrc, captured, rr, printed,
                   raised, exitcode, results, matcher_calls>>

\* lines 117, 27, 49-55: the executable does not exist
LaunchNotFound ==
    /\ pc = "decoded"
    /\ args.cmd = "missing"
    /\ spawns' = spawns + 1
    /\ rr' = NotFoundResult
    /\ results' = results + 1
    /\ pc' = "ran"
    /\ UNCHANGED <<argv, args, stdin_text, child, childrc, delivered, captured,
                   printed, raised, exitcode, matcher_calls>>

\* lines 117, 27: the executable exists but cannot be executed; the
\* PermissionError is not a FileNotFoundError and leaves run_java and main
LaunchFails ==
    /\ pc = "decoded"
    /\ args.cmd = "not_executable"
    /\ spawns' = spawns + 1
    /\ Abort("PermissionError", 1, Traceback("PermissionError"))
    /\ UNCHANGED <<argv, args, stdin_text, child, childrc, delivered, captured,
                   rr, results, matcher_calls>>

\* the child writes to its stdout
ChildWrite ==
    /\ child = "running"
    /\ captured = <<>>
    /\ \E bytes \in ChildOutputs : captured' = bytes
    /\ UNCHANGED <<argv, pc, args, stdin_text, child, childrc, delivered, rr,
                   printed, raised, exitcode, spawns, results, matcher_calls>>

\* the child terminates by itself
ChildExit ==
    /\ child = "running"
    /\ \E rc \in 0..MaxExit : childrc' = rc
    /\ child' = "exited"
    /\ UNCHANGED <<argv, pc, args, stdin_text, delivered, captured, rr,
                   printed, raised, exitcode, spawns, results, matcher_calls>>

\* lines 27-41: communicate() returns after the child has terminated
RunReturns ==
    /\ pc = "waiting"
    /\ child = "exited"
    /\ Decodable(captured)
    /\ rr' = NormalResult(childrc, captured)
    /\ results' = results + 1
    /\ pc' = "ran"
    /\ UNCHANGED <<argv, args, stdin_text, child, childrc, delivered, captured,
                   printed, raised, exitcode, spawns, matcher_calls>>

\* line 27: the captured output is not valid UTF-8
RunDecodeFails ==
    /\ pc = "waiting"
    /\ child = "exited"
    /\ ~Decodable(captured)
    /\ Abort("UnicodeDecodeError", 1, Traceback("UnicodeDecodeError"))
    /\ UNCHANGED <<argv, args, stdin_text, child, childrc, delivered, captured,
                   rr, spawns, results, matcher_calls>>

\* a variant that leaves the child running when the timeout expires
TimeoutExpires_nokill ==
    /\ pc = "waiting"
    /\ child = "running"
    /\ rr' = TimeoutResult(captured)
    /\ results' = results + 1
    /\ pc' = "ran"
    /\ UNCHANGED <<argv, args, stdin_text, child, childrc, delivered, captured,
                   printed, raised, exitcode, spawns, matcher_calls>>

\* a variant that launches the child again after a timeout
TimeoutExpires_retry ==
    /\ pc = "waiting"
    /\ child = "running"
    /\ spawns < 2
    /\ spawns' = spawns + 1
    /\ captured' = <<>>
    /\ UNCHANGED <<argv, pc, args, stdin_text, child, childrc, delivered, rr,
                   printed, raised, exitcode, results, matcher_calls>>

\* lines 27, 42-48: the timeout expires while the child runs; subprocess.run
\* kills the child, waits for it and raises TimeoutExpired
TimeoutExpires ==
    /\ pc = "waiting"
    /\ child = "running"
    /\ child' = "killed"
    /\ rr' = TimeoutResult(captured)
    /\ results' = results + 1
    /\ pc' = "ran"
    /\ UNCHANGED <<argv, args, stdin_text, childrc, delivered, captured,
                   printed, raised, exitcode, spawns, matcher_calls>>

\* lines 118-140 and 143-144: echo, decision, report, exit status
Report ==
    /\ pc = "ran"
    /\ LET v == Verdict(args, rr)
       IN  /\ printed' = printed \o Prints(args, rr, v)
           /\ exitcode' = ExitStatus(args, v)
           /\ raised' = IF v \in {"exit2", "match", "nomatch"} THEN "" ELSE v
           /\ matcher_calls' = IF v = "exit2" THEN matcher_calls ELSE matcher_calls + 1
    /\ pc' = "done"
    /\ UNCHANGED <<argv, args, stdin_text, child, childrc, delivered, captured,
                   rr, spawns, results>>

\* the steps of the tool, and the steps of the child
ToolStep ==
    \/ ParseArgs
    \/ ParseArgsFails
    \/ DecodeStdin
    \/ DecodeStdinFails
    \/ LaunchChild
    \/ LaunchNotFound
    \/ LaunchFails
    \/ RunReturns
    \/ RunDecodeFails
    \/ TimeoutExpires
    \/ Report

Next ==
    \/ ParseArgs
    \/ ParseArgsFails
    \/ DecodeStdin
    \/ DecodeStdinFails
    \/ LaunchChild
    \/ LaunchNotFound
    \/ LaunchFails
    \/ ChildWrite
    \/ ChildExit
    \/ RunReturns
    \/ RunDecodeFails
    \/ TimeoutExpires
    \/ Report

Spec == Init /\ [][Next]_vars

\* the tool's own steps are taken as long as one is possible: the blocking
\* call returns when the child has terminated, and its timer expires while
\* the child runs; nothing is assumed about the child
LiveInit == InitWith(GoodArgvs(LiveInputs) \cup BadArgvs)
LiveSpec == LiveInit /\ [][Next]_vars /\ WF_vars(ToolStep)

----------------------------------------------------------------------------
(* Vocabulary of the properties                                            *)

Done == pc = "done"
PastParse == args # NoArgs
HasRR == rr # NoRR
Returned == Done /\ HasRR /\ raised = ""
TimedOut == child = "killed"
NotFound == PastParse /\ args.cmd = "missing" /\ spawns > 0
PassPrinted == \E i \in 1..Len(out) : out[i].tag = "PASS"
OnErr(tag) == \E i \in 1..Len(err) : err[i].tag = tag
\* the text the child wrote, as rr carries it, matches the configured pattern
WouldMatch == PatternValid(args.regex) /\ Search(args.regex, rr.stdout.val, Flags(args))

\* the decoding the specification describes: the four escapes \n \t \r \\
\* become one character, every other character is kept
RECURSIVE TableDecode(_)
TableDecode(s) ==
    IF s = <<>> THEN <<>>
    ELSE IF Head(s) = BACKSLASH /\ Len(s) > 1 /\ s[2] \in {110, 116, 114, 92}
         THEN <<EscapeValue(s[2])>> \o TableDecode(Tail(Tail(s)))
    ELSE <<Head(s)>> \o TableDecode(Tail(s))

----------------------------------------------------------------------------
(* C1: with --require-zero-exit set and a nonzero return code in the       *)
(* RunResult, the tool returns 2, never prints PASS and never calls the    *)
(* matcher, whatever the regex is.                                         *)
C1_NonzeroExitGivesTwo ==
    (Done /\ PastParse /\ HasRR /\ args.require_zero_exit /\ rr.returncode # 0)
        => /\ exitcode = 2
           /\ raised = ""
           /\ ~PassPrinted
           /\ matcher_calls = 0

\* a synthetic return code (timeout) with an empty stdout that the pattern matches
C1_Witness ==
    /\ Done /\ HasRR /\ args.require_zero_exit
    /\ rr.returncode = 124 /\ WouldMatch
    /\ exitcode = 2

(* C2: when the child terminates normally with exit code 0 and the regex   *)
(* is valid, the tool returns 0 and prints PASS if stdout matches, and     *)
(* ends with 1 without PASS if it does not; no other exit code occurs.     *)
C2_ZeroExitDecidedByMatch ==
    (Done /\ child = "exited" /\ childrc = 0 /\ PatternValid(args.regex))
        => IF HasRR /\ WouldMatch
           THEN exitcode = 0 /\ PassPrinted /\ raised = ""
           ELSE exitcode = 1 /\ ~PassPrinted /\ (HasRR => raised = "")

C2_Witness ==
    /\ Done /\ child = "exited" /\ childrc = 0
    /\ args.require_zero_exit /\ args.verbose
    /\ rr.stdout.val = <<"x", "o", "k">> /\ args.regex = <<"O", "K">>
    /\ exitcode = 0 /\ PassPrinted

(* C3 as stated: the tool's exit code is 124 when the child timed out and  *)
(* 127 when the executable was not found, with the message on the          *)
(* diagnostic stream.                                                      *)
C3_Original ==
    /\ (Done /\ TimedOut) => (exitcode = 124 /\ OnErr("Timed out after"))
    /\ (Done /\ NotFound) => (exitcode = 127 /\ OnErr("Command not found"))

(* C3 amended: 124 and 127 are the return codes of the RunResult, which    *)
(* carries the message in stderr; the tool itself ends with 2 when         *)
(* --require-zero-exit is set and with 0 or 1 otherwise, never with 124 or *)
(* 127, and the message is on the diagnostic stream whenever main returns  *)
(* 1 or 2.                                                                 *)
C3_SyntheticCodesStayInResult ==
    /\ (HasRR /\ TimedOut) =>
          (rr.returncode = 124 /\ ~rr.ok /\ rr.stderr = "Timed out after")
    /\ (HasRR /\ NotFound) =>
          (rr.returncode = 127 /\ ~rr.ok /\ rr.stderr = "Command not found")
    /\ (Done /\ (TimedOut \/ NotFound)) =>
          /\ exitcode \notin {124, 127}
          /\ args.require_zero_exit => exitcode = 2
          /\ ~args.require_zero_exit => exitcode \in {0, 1}
          /\ (raised = "" /\ exitcode \in {1, 2}) => OnErr(rr.stderr)

\* a timed-out child and the tool reports PASS
C3_Witness ==
    /\ Done /\ TimedOut /\ rr.returncode = 124
    /\ exitcode = 0 /\ PassPrinted

(* C4: every launch failure, the executable missing or not launchable,     *)
(* gives a RunResult with ok = false, returncode = 127 and empty stdout,   *)
(* and no exception leaves run_java.                                       *)
C4_Original ==
    (PastParse /\ spawns > 0 /\ args.cmd \in {"missing", "not_executable"})
        => /\ HasRR
           /\ ~rr.ok /\ rr.returncode = 127 /\ rr.stdout = Text(<<>>)
           /\ raised \notin {"PermissionError", "FileNotFoundError"}

(* C5 as stated: no run with an invalid regex ends in one of the           *)
(* Reporter's normal outcomes (exit 0, 1 or 2 returned by main).           *)
C5_Original ==
    (Done /\ PastParse /\ ~PatternValid(args.regex))
        => ~(raised = "" /\ exitcode \in {0, 1, 2})

(* C5 amended: with an invalid regex, a run that reaches the matcher       *)
(* (--require-zero-exit not set, or return code 0) ends with an uncaught   *)
(* re.error and no PASS; a run with --require-zero-exit and a nonzero      *)
(* return code returns 2 without the pattern being compiled.               *)
C5_InvalidRegexRaisesAtMatch ==
    (Done /\ HasRR /\ ~PatternValid(args.regex))
        => IF args.require_zero_exit /\ rr.returncode # 0
           THEN exitcode = 2 /\ raised = "" /\ matcher_calls = 0
           ELSE raised = "re.error" /\ OnErr("re.error") /\ ~PassPrinted
                /\ matcher_calls = 1

C5_Witness ==
    /\ Done /\ HasRR /\ ~PatternValid(args.regex)
    /\ rr.returncode = 1 /\ ~args.require_zero_exit
    /\ raised = "re.error"

(* C6: with --verbose the child's captured stdout is the first thing       *)
(* written, on the primary stream, before PASS or a failure report, also   *)
(* after a timeout or a missing executable; without --verbose the primary  *)
(* stream receives nothing except PASS.                                    *)
C6_Original ==
    (Done /\ HasRR)
        => IF args.verbose
           THEN /\ Len(printed) >= 1
                /\ printed[1].stream = "stdout"
                /\ printed[1].text = captured
                /\ \A i \in 2..Len(out) : out[i].tag = "PASS"
           ELSE \A i \in 1..Len(out) : out[i].tag = "PASS"

(* C7 as stated: the child is launched at most once, never when argument   *)
(* parsing or the decoding of --input fails and exactly once otherwise,    *)
(* and every invocation that reaches the runner produces exactly one       *)
(* RunResult.                                                              *)
C7_Original ==
    /\ spawns <= 1
    /\ results <= 1
    /\ Done => spawns = (IF ~PastParse \/ DecodeRaises(args.input) THEN 0 ELSE 1)
    /\ (Done /\ spawns = 1) => results = 1

(* C7 amended: the child is launched at most once, never when argument     *)
(* parsing or the decoding of --input fails and exactly once otherwise; at *)
(* most one RunResult is produced, exactly one when run_java returns and   *)
(* none when an exception leaves run_java (the child's output is not valid *)
(* UTF-8, or the launch fails with an error other than file-not-found).    *)
C7_OneLaunchAtMostOneResult ==
    /\ spawns <= 1
    /\ results <= spawns
    /\ Done => spawns = (IF ~PastParse \/ DecodeRaises(args.input) THEN 0 ELSE 1)
    /\ (Done /\ spawns = 1) =>
          (results = 1 <=>
              ~(\/ args.cmd = "not_executable"
                \/ child = "exited" /\ ~Decodable(captured)))

C7_Witness ==
    /\ Done /\ TimedOut /\ exitcode = 1
    /\ spawns = 1 /\ results = 1

(* C8: the tool always terminates, also when the child never exits, and    *)
(* whenever the RunResult is the timeout result the child has been killed. *)
C8_TerminatesAndKills ==
    /\ <>(pc = "done")
    /\ [](HasRR /\ rr.returncode = 124 => child = "killed")

C8_Witness ==
    /\ Done /\ rr.returncode = 124 /\ child = "killed"

(* C9: the text delivered to the child's stdin is the --input value with   *)
(* the escapes \n \t \r \\ replaced and every other character unchanged,   *)
(* for every input, non-ASCII characters and a trailing backslash included.*)
C9_Original ==
    /\ (PastParse /\ pc \notin {"start", "parsed"}) =>
          ~(raised = "UnicodeDecodeError" /\ spawns = 0)
    /\ child # "none" => delivered = TableDecode(args.input)

(* C10: without --require-zero-exit the exit code depends only on whether  *)
(* the captured stdout matches the regex, not on the return code: also a   *)
(* timed-out, failed or not-found child gives PASS and 0 when it matches.  *)
C10_Original ==
    (Done /\ HasRR /\ ~args.require_zero_exit /\ PatternValid(args.regex))
        => IF WouldMatch
           THEN exitcode = 0 /\ PassPrinted
           ELSE exitcode = 1 /\ ~PassPrinted

====
